---------------------------- MODULE Spec2Model ----------------------------
(***************************************************************************)
(* zk-private-lending: the Halo2 constraint systems (range check,         *)
(* comparison, commitment, Collateral / LTV / Liquidation circuits) and    *)
(* the proving service that caches per-circuit keys behind a tokio RwLock  *)
(* and drives proof creation for the HTTP handlers.                        *)
(*                                                                         *)
(* Two specifications:                                                     *)
(*   Spec        - concurrent proof requests against one ZKProver          *)
(*   SpecCircuit - one circuit: synthesize, (tamper the instance), verify  *)
(*                                                                         *)
(* The Pallas base field (255 bits) is scaled down to the smallest prime   *)
(* not below ModulusFloor; every other number is the program's own.        *)
(***************************************************************************)
EXTENDS Integers, Sequences, FiniteSets, TLC

(***************************************************************************)
(* Bounds of the model.                                                    *)
(***************************************************************************)
\* The field modulus is the smallest prime >= ModulusFloor.
ModulusFloor == 1048576
\* Number of concurrent HTTP proof requests.
NumRequests == 2
\* Longest proof byte string handed to the serializer.
MaxProofLen == 288
\* The arkworks circuit's RANGE_BITS (64 over a 254-bit field), scaled with
\* the field.
ArkRangeBits == 16
\* Concurrent callers of PriceOracle::get_eth_price.
NumCallers == 2
\* Clock resolution, the number of times the clock advances, and the number
\* of get_eth_price calls.
TicksPerSec == 2
MaxAdvances == 2
MaxCalls == 3
\* WsHub: receivers, messages sent, and the per-user channel capacity
\* (broadcast::channel(100), scaled).
NumReceivers == 2
MaxSends == 3
UserChannelCapacity == 2

(***************************************************************************)
(* Program constants.                                                      *)
(***************************************************************************)
RANGE_BITS == 16
TEST_BITS == 8
LTV_PRECISION == 100
PRECISION == 100
PRICE_SCALE == 100000000
SRS_K == 17
REPR_BYTES == 32
WORD_BYTES == 32
CACHE_TTL_SECS == 60
\* fetch_price's mock price 2000_00000000 (8 decimals), in whole dollars.
MOCK_PRICE == 2000
VALIDATION_SCALE == 10000
U128_BYTES == 16
U64_BYTES == 8

(***************************************************************************)
(* The prime field Fp (pasta_curves::Fp), scaled.                          *)
(***************************************************************************)
IsPrime(n) == n > 1 /\ \A d \in 2..1449 : (d * d > n) \/ (n % d # 0)

FieldModulus ==
    CHOOSE p \in ModulusFloor..(ModulusFloor + 200) :
        IsPrime(p) /\ \A q \in ModulusFloor..(p - 1) : ~IsPrime(q)

Fp == 0..(FieldModulus - 1)

\* Fp::from_u128 / Fp::from(u64): the canonical embedding of an integer.
FromInt(x) == x % FieldModulus

FAdd(a, b) == (a + b) % FieldModulus

FSub(a, b) == ((a - b) + FieldModulus) % FieldModulus

\* a * b mod p without leaving 31 bits: b is split into two 10-bit halves.
FMul(a, b) ==
    LET bh == b \div 1024
        bl == b % 1024
        hi == (((a * bh) % FieldModulus) * 1024) % FieldModulus
        lo == (a * bl) % FieldModulus
    IN  (hi + lo) % FieldModulus

(***************************************************************************)
(* Commitments (the placeholder algebraic form).                           *)
(***************************************************************************)
\* CollateralCircuit::compute_commitment / LTVCircuit::compute_commitment
compute_commitment(value, salt) == FAdd(FMul(value, salt), value)

\* LiquidationCircuit::compute_position_hash
compute_position_hash(collateral, debt, salt) ==
    FAdd(FAdd(FAdd(FMul(collateral, salt), FMul(debt, salt)), collateral), debt)

\* Fp::to_repr: the little-endian bytes of the canonical integer.
RECURSIVE LittleEndian(_, _)
LittleEndian(x, n) ==
    IF n = 0 THEN <<>> ELSE <<x % 256>> \o LittleEndian(x \div 256, n - 1)

to_repr(x) == LittleEndian(x, REPR_BYTES)

\* Fp::from_repr: the integer a little-endian byte string stands for.
RECURSIVE from_repr(_)
from_repr(bytes) ==
    IF bytes = <<>> THEN 0 ELSE Head(bytes) + 256 * from_repr(Tail(bytes))

\* ZKProver::compute_commitment(value: u128, salt: u128): the circuit's
\* formula on Fp::from_u128 of both, returned as the 32 bytes of to_repr.
ZKProverComputeCommitment(value, salt) ==
    to_repr(compute_commitment(FromInt(value), FromInt(salt)))

(***************************************************************************)
(* RangeCheck gadget (lookup strategy).                                    *)
(***************************************************************************)
\* A table that also holds 2^BITS.
load_table_inclusive(bits) == 0..(2 ^ bits)

\* RangeCheckChip::load_table: the table column holds F::from(i), i < 2^BITS.
\* 2^BITS is below the modulus, so F::from(i) is i itself.
load_table(bits) == 0..((2 ^ bits) - 1)

\* A lookup whose table holds every field element (no range is enforced).
RangeLookupOpen(v, bits) == v \in Fp

\* The lookup argument of RangeCheckChip::configure, selector enabled:
\* q * v must be a row of the table.
RangeLookup(v, bits) == v \in load_table(bits)

\* RangeCheckChip::check: a region holding a copy of the value, lookup enabled.
range_check(cell) == [value |-> cell]

(***************************************************************************)
(* Comparison gadget.                                                      *)
(***************************************************************************)
\* The gate with the sign of b flipped: diff - a - b = 0.
ComparisonGateFlipped(a, b, diff) == FSub(FSub(diff, a), b) = 0

\* The "comparison" gate of ComparisonChip::configure: diff - a + b = 0.
ComparisonGate(a, b, diff) == FAdd(FSub(diff, a), b) = 0

\* No cell is overridden: the prover runs synthesize as written.
NoOverride == [cell |-> "none", value |-> 0]

\* region.assign_advice(name, || value): the cell takes the closure's value.
\* A prover who deviates from synthesize returns another value from the
\* closure of the one cell named by the override o.
Assign(o, name, honest) == IF o.cell = name THEN o.value ELSE honest

\* ComparisonChip::gte: copies a and b into the region, assigns
\* diff = a - b computed from the two cells, then range-checks a copy of diff.
gte(a, b, o) ==
    LET diff == Assign(o, "diff", FSub(a, b))
    IN  [a |-> a, b |-> b, diff |-> diff, rc |-> range_check(diff)]

\* ComparisonChip::gt: a fresh cell b + 1 (no gate, no copy constraint ties
\* it to b), then gte(a, b + 1).
gt(a, b, o) ==
    LET b_plus_one == Assign(o, "b_plus_one", FAdd(b, 1))
    IN  [b_plus_one |-> b_plus_one, cmp |-> gte(a, b_plus_one, o)]

\* What a verifier checks of one gte region whose inputs are the cells a, b:
\* the two copy constraints, the gate, the copy into the range-check region
\* and the lookup.
GteSatisfied(r, a, b, bits) ==
    /\ r.a = a
    /\ r.b = b
    /\ ComparisonGate(r.a, r.b, r.diff)
    /\ r.rc.value = r.diff
    /\ RangeLookup(r.rc.value, bits)


\* What a verifier checks of one gt region: only the gte on (a, b_plus_one).
GtSatisfied(r, a, bits) == GteSatisfied(r.cmp, a, r.b_plus_one, bits)

(***************************************************************************)
(* Collateral circuit.                                                     *)
(***************************************************************************)
\* CollateralCircuit::synthesize for the witness w = (collateral, salt,
\* threshold); the commitment cell is recomputed from the witness.
CollateralSynthesize(w, o) ==
    LET collateral == Assign(o, "collateral", w.collateral)
        threshold  == Assign(o, "threshold", w.threshold)
    IN  [collateral |-> collateral,
         salt       |-> Assign(o, "salt", w.salt),
         threshold  |-> threshold,
         commitment |-> Assign(o, "commitment",
                               compute_commitment(w.collateral, w.salt)),
         cmp        |-> gte(collateral, threshold, o)]

\* The gate with the value term left out: comm - coll * s = 0.
CollateralCommitmentGateNoValue(c) ==
    FSub(c.commitment, FMul(c.collateral, c.salt)) = 0

\* The "commitment" gate: comm - coll * s - coll = 0.
CollateralCommitmentGate(c) ==
    FSub(FSub(c.commitment, FMul(c.collateral, c.salt)), c.collateral) = 0

\* constrain_instance(threshold, 0), constrain_instance(commitment, 1).
CollateralInstance(c, inst) ==
    /\ Len(inst) = 2
    /\ c.threshold = inst[1]
    /\ c.commitment = inst[2]

CollateralSatisfied(c, inst) ==
    /\ CollateralCommitmentGate(c)
    /\ CollateralInstance(c, inst)
    /\ GteSatisfied(c.cmp, c.collateral, c.threshold, RANGE_BITS)

\* The public inputs the tests and ZKProver pass: [threshold, commitment].
CollateralPublicInputs(w) ==
    <<w.threshold, compute_commitment(w.collateral, w.salt)>>

(***************************************************************************)
(* LTV circuit.                                                            *)
(***************************************************************************)
\* LTVCircuit::synthesize for w = (debt, collateral, salt_d, salt_c, max_ltv).
LTVSynthesize(w, o) ==
    LET debt_scaled == Assign(o, "debt_scaled",
                              FMul(w.debt, FromInt(LTV_PRECISION)))
        collateral_scaled == Assign(o, "collateral_scaled",
                                    FMul(w.collateral, w.max_ltv))
    IN  [debt                  |-> Assign(o, "debt", w.debt),
         collateral            |-> Assign(o, "collateral", w.collateral),
         salt_d                |-> Assign(o, "salt_d", w.salt_d),
         salt_c                |-> Assign(o, "salt_c", w.salt_c),
         debt_scaled           |-> debt_scaled,
         collateral_scaled     |-> collateral_scaled,
         debt_commitment       |-> Assign(o, "debt_commitment",
                                     compute_commitment(w.debt, w.salt_d)),
         collateral_commitment |-> Assign(o, "collateral_commitment",
                                     compute_commitment(w.collateral, w.salt_c)),
         cmp                   |-> gte(collateral_scaled, debt_scaled, o)]

\* The gate with the precision left out: debt_scaled - debt = 0.
LTVDebtScalingGateUnscaled(c) == FSub(c.debt_scaled, c.debt) = 0

\* The "debt scaling" gate: debt_scaled - debt * 100 = 0.
LTVDebtScalingGate(c) ==
    FSub(c.debt_scaled, FMul(c.debt, FromInt(LTV_PRECISION))) = 0

\* The "commitments" gate: dc - d * sd - d = 0 and cc - c * sc - c = 0.
LTVCommitmentGate(c) ==
    /\ FSub(FSub(c.debt_commitment, FMul(c.debt, c.salt_d)), c.debt) = 0
    /\ FSub(FSub(c.collateral_commitment, FMul(c.collateral, c.salt_c)),
            c.collateral) = 0

\* constrain_instance(debt_commitment, 1), constrain_instance(
\* collateral_commitment, 2); no cell is constrained to instance row 0.
LTVInstance(c, inst) ==
    /\ Len(inst) = 3
    /\ c.debt_commitment = inst[2]
    /\ c.collateral_commitment = inst[3]

LTVSatisfied(c, inst) ==
    /\ LTVDebtScalingGate(c)
    /\ LTVCommitmentGate(c)
    /\ LTVInstance(c, inst)
    /\ GteSatisfied(c.cmp, c.collateral_scaled, c.debt_scaled, RANGE_BITS)

\* [max_ltv, debt_commitment, collateral_commitment]
LTVPublicInputs(w) ==
    <<w.max_ltv, compute_commitment(w.debt, w.salt_d),
      compute_commitment(w.collateral, w.salt_c)>>

(***************************************************************************)
(* Liquidation circuit.                                                    *)
(***************************************************************************)
\* LiquidationCircuit::synthesize for w = (collateral, debt, salt, price,
\* liquidation_threshold).
LiquidationSynthesize(w, o) ==
    LET collateral_value == Assign(o, "collateral_value",
            FMul(FMul(w.collateral, w.price), w.liquidation_threshold))
        debt_scaled == Assign(o, "debt_scaled",
                              FMul(w.debt, FromInt(PRECISION)))
    IN  [collateral            |-> Assign(o, "collateral", w.collateral),
         debt                  |-> Assign(o, "debt", w.debt),
         salt                  |-> Assign(o, "salt", w.salt),
         price                 |-> Assign(o, "price", w.price),
         liquidation_threshold |-> Assign(o, "liquidation_threshold",
                                          w.liquidation_threshold),
         collateral_value      |-> collateral_value,
         debt_scaled           |-> debt_scaled,
         position_hash         |-> Assign(o, "position_hash",
             compute_position_hash(w.collateral, w.debt, w.salt)),
         cmp                   |-> gt(debt_scaled, collateral_value, o)]

\* The "liquidation computation" gate: cv - coll * p * lt = 0 and
\* ds - d * 100 = 0.
LiquidationComputationGate(c) ==
    /\ FSub(c.collateral_value,
            FMul(FMul(c.collateral, c.price), c.liquidation_threshold)) = 0
    /\ FSub(c.debt_scaled, FMul(c.debt, FromInt(PRECISION))) = 0

\* The "position hash" gate: hash - coll * s - d * s - coll - d = 0.
LiquidationPositionHashGate(c) ==
    FSub(FSub(FSub(FSub(c.position_hash, FMul(c.collateral, c.salt)),
                   FMul(c.debt, c.salt)), c.collateral), c.debt) = 0

\* constrain_instance(position_hash, 2); rows 0 and 1 are constrained to
\* no cell.
LiquidationInstance(c, inst) ==
    /\ Len(inst) = 3
    /\ c.position_hash = inst[3]

LiquidationSatisfied(c, inst) ==
    /\ LiquidationComputationGate(c)
    /\ LiquidationPositionHashGate(c)
    /\ LiquidationInstance(c, inst)
    /\ GtSatisfied(c.cmp, c.debt_scaled, RANGE_BITS)

\* [price, liquidation_threshold, position_hash]
LiquidationPublicInputs(w) ==
    <<w.price, w.liquidation_threshold,
      compute_position_hash(w.collateral, w.debt, w.salt)>>

\* LiquidationCircuit::is_liquidatable, on integers.
is_liquidatable(collateral, debt, price, liquidation_threshold) ==
    collateral * price * liquidation_threshold < debt * PRECISION

(***************************************************************************)
(* The comparison gadget's own test circuit (BITS = 8).                    *)
(***************************************************************************)
\* ComparisonTestCircuit::synthesize for w = (a, b).
ComparisonTestSynthesize(w, o) ==
    LET a == Assign(o, "a", w.a)
        b == Assign(o, "b", w.b)
    IN  [a |-> a, b |-> b, cmp |-> gte(a, b, o)]

ComparisonTestSatisfied(c, inst) ==
    /\ Len(inst) = 0
    /\ GteSatisfied(c.cmp, c.a, c.b, TEST_BITS)

(***************************************************************************)
(* The range-check gadget's own test circuit (BITS = 8).                   *)
(***************************************************************************)
\* RangeCheckTestCircuit::synthesize for w = (value): assign the value, then
\* chip.check on the assigned cell.
RangeCheckTestSynthesize(w, o) ==
    LET value == Assign(o, "value", w.value)
    IN  [value |-> value, rc |-> range_check(value)]

\* The copy into the range-check region and the lookup.
RangeCheckTestSatisfied(c, inst) ==
    /\ Len(inst) = 0
    /\ c.rc.value = c.value
    /\ RangeLookup(c.rc.value, TEST_BITS)

(***************************************************************************)
(* The Poseidon gadget (gadgets/poseidon.rs).                              *)
(***************************************************************************)
POSEIDON_WIDTH == 3
FULL_ROUNDS == 8
PARTIAL_ROUNDS == 56
TotalRounds == FULL_ROUNDS + PARTIAL_ROUNDS
Lanes == 0..(POSEIDON_WIDTH - 1)

\* a^n by squaring.
RECURSIVE FPow(_, _)
FPow(a, n) ==
    IF n = 0 THEN 1
    ELSE LET h == FPow(a, n \div 2)
             sq == FMul(h, h)
         IN  IF n % 2 = 1 THEN FMul(sq, a) ELSE sq

\* F::invert().unwrap_or(F::ONE)
InvertOrOne(a) == IF a = 0 THEN 1 ELSE FPow(a, FieldModulus - 2)

\* F::from(0x1234567890abcdef), read in 16-bit limbs.
RcMultiplier ==
    LET sh == FromInt(65536)
        l3 == FromInt(4660)
        l2 == FAdd(FMul(l3, sh), FromInt(22136))
        l1 == FAdd(FMul(l2, sh), FromInt(37035))
    IN  FAdd(FMul(l1, sh), FromInt(52719))

\* round_constants()[i][j]
round_constants ==
    [i \in 0..(TotalRounds - 1) |->
        [j \in Lanes |->
            FMul(FromInt(i * POSEIDON_WIDTH + j + 1), RcMultiplier)]]

\* mds_matrix()[i][j]
mds_matrix ==
    [i \in Lanes |->
        [j \in Lanes |->
            InvertOrOne(FAdd(FromInt(i + 1),
                             FromInt(j + POSEIDON_WIDTH + 1)))]]

\* x^5, as x4 * x with x4 = (x * x)^2.
SBox(x) ==
    LET x2 == FMul(x, x)
        x4 == FMul(x2, x2)
    IN  FMul(x4, x)

is_full_round(round) ==
    \/ round < FULL_ROUNDS \div 2
    \/ round >= FULL_ROUNDS \div 2 + PARTIAL_ROUNDS

\* The S-box layer of one round: every lane in a full round, lane 0 in a
\* partial round.
SBoxLayer(state, full) ==
    [j \in Lanes |-> IF full \/ j = 0 THEN SBox(state[j]) ELSE state[j]]

\* new_state[i] = sum_j mds[i][j] * state[j]
MdsLayer(state) ==
    [i \in Lanes |->
        FAdd(FAdd(FMul(mds_matrix[i][0], state[0]),
                  FMul(mds_matrix[i][1], state[1])),
             FMul(mds_matrix[i][2], state[2]))]

AddRoundConstants(state, round) ==
    [i \in Lanes |-> FAdd(state[i], round_constants[round][i])]

PoseidonInitialState(input1, input2) ==
    AddRoundConstants([j \in Lanes |->
                          CASE j = 0 -> input1 [] j = 1 -> input2 [] OTHER -> 0],
                      0)

\* One iteration of poseidon_hash's round loop: the S-box in place, the MDS
\* product, then the next round's constants.
HashRound(state, round) ==
    LET mixed == MdsLayer(SBoxLayer(state, is_full_round(round)))
    IN  IF round + 1 < TotalRounds
        THEN AddRoundConstants(mixed, round + 1)
        ELSE mixed

\* The round loop of poseidon_hash; each state is a vector of field elements.
RECURSIVE PoseidonPermute(_, _)
PoseidonPermute(state, round) ==
    IF round = TotalRounds THEN state
    ELSE LET next == HashRound(state, round)
         IN  IF next \in [Lanes -> Fp]
             THEN PoseidonPermute(next, round + 1)
             ELSE next

\* poseidon_hash(input1, input2)
poseidon_hash(input1, input2) ==
    PoseidonPermute(PoseidonInitialState(input1, input2), 0)[0]

\* One iteration of PoseidonChip::hash's round loop: new_state[i] is the
\* fold over j of acc + mds[i][j] * sbox_j, plus the next round's constant.
ChipRound(state, round) ==
    [i \in Lanes |->
        LET sbox(j) == IF is_full_round(round) \/ j = 0
                       THEN FMul(FMul(FMul(FMul(state[j], state[j]), state[j]),
                                      state[j]), state[j])
                       ELSE state[j]
            acc0 == FAdd(0, FMul(mds_matrix[i][0], sbox(0)))
            acc1 == FAdd(acc0, FMul(mds_matrix[i][1], sbox(1)))
            acc2 == FAdd(acc1, FMul(mds_matrix[i][2], sbox(2)))
        IN  IF round + 1 < TotalRounds
            THEN FAdd(acc2, round_constants[round + 1][i])
            ELSE acc2]

\* The rows PoseidonChip::hash assigns: row 0 is the initial state, row
\* r + 1 the state after round r.
RECURSIVE PoseidonRows(_, _)
PoseidonRows(state, round) ==
    IF round = TotalRounds THEN <<state>>
    ELSE <<state>> \o PoseidonRows(ChipRound(state, round), round + 1)

\* PoseidonChip::hash on two assigned cells; rows[r + 1] is region row r.
PoseidonChipHash(input1, input2) ==
    LET rows == PoseidonRows(PoseidonInitialState(input1, input2), 0)
    IN  [rows |-> rows, output |-> rows[TotalRounds + 1][0]]

\* Gate "poseidon full round": next[i] = sum_j mds[i][j] * cur[j]^5.
FullRoundGate(cur, next) ==
    next = MdsLayer(SBoxLayer(cur, TRUE))

\* Gate "poseidon partial round": the S-box on lane 0 only.
PartialRoundGate(cur, next) ==
    next = MdsLayer(SBoxLayer(cur, FALSE))

\* The selector hash enables on region row r and the gate it switches on.
PoseidonRowGate(rows, r) ==
    IF is_full_round(r)
    THEN FullRoundGate(rows[r + 1], rows[r + 2])
    ELSE PartialRoundGate(rows[r + 1], rows[r + 2])

\* A circuit that assigns two inputs and calls PoseidonChip::hash on them.
PoseidonSynthesize(w, o) ==
    [input1 |-> w.input1, input2 |-> w.input2,
     hash |-> PoseidonChipHash(w.input1, w.input2)]

PoseidonSatisfied(c, inst) ==
    /\ Len(inst) = 0
    /\ \A r \in 0..(TotalRounds - 1) : PoseidonRowGate(c.hash.rows, r)

(***************************************************************************)
(* The arkworks (R1CS) Collateral circuit (arkworks/src/collateral.rs).    *)
(***************************************************************************)
\* The bit length of the field modulus.
FieldBits == CHOOSE n \in 1..30 : 2 ^ (n - 1) <= FieldModulus /\ FieldModulus < 2 ^ n

\* FpVar::to_bits_le: the bits of the canonical representative, least
\* significant first.
to_bits_le(x) == [i \in 1..FieldBits |-> (x \div (2 ^ (i - 1))) % 2]

\* generate_constraints for w = (collateral, salt, threshold) and the
\* public commitment the test computes with compute_commitment.
ArkCollateralSynthesize(w, o) ==
    LET collateral == FromInt(w.collateral)
        salt == FromInt(w.salt)
        threshold == FromInt(w.threshold)
        diff == FSub(collateral, threshold)
        offset == FromInt(2 ^ (ArkRangeBits - 1))
        diff_shifted == FAdd(diff, offset)
    IN  [collateral |-> collateral, salt |-> salt, threshold |-> threshold,
         commitment |-> compute_commitment(collateral, salt),
         collateral_bits |-> to_bits_le(collateral),
         threshold_bits |-> to_bits_le(threshold),
         diff_shifted |-> diff_shifted,
         diff_bits |-> to_bits_le(diff_shifted),
         computed_commitment |-> FAdd(FMul(collateral, salt), collateral)]

\* for bit in bits.iter().skip(RANGE_BITS): bit == false
HighBitsZero(bits) == \A i \in (ArkRangeBits + 1)..FieldBits : bits[i] = 0

ArkCollateralPublicInputs(w) ==
    <<FromInt(w.threshold),
      compute_commitment(FromInt(w.collateral), FromInt(w.salt))>>

\* cs.is_satisfied(): the public inputs are the threshold and commitment
\* variables; the three skip(RANGE_BITS) loops and the commitment equality.
ArkCollateralSatisfied(c, inst) ==
    /\ Len(inst) = 2
    /\ c.threshold = inst[1]
    /\ c.commitment = inst[2]
    /\ HighBitsZero(c.collateral_bits)
    /\ HighBitsZero(c.threshold_bits)
    /\ HighBitsZero(c.diff_bits)
    /\ c.computed_commitment = c.commitment

(***************************************************************************)
(* Dispatch over the circuit kinds.                                        *)
(***************************************************************************)
Synthesize(kind, w, o) ==
    CASE kind = "Collateral"     -> CollateralSynthesize(w, o)
      [] kind = "LTV"            -> LTVSynthesize(w, o)
      [] kind = "Liquidation"    -> LiquidationSynthesize(w, o)
      [] kind = "ComparisonTest" -> ComparisonTestSynthesize(w, o)
      [] kind = "RangeCheckTest" -> RangeCheckTestSynthesize(w, o)
      [] kind = "Poseidon"       -> PoseidonSynthesize(w, o)
      [] kind = "ArkCollateral"  -> ArkCollateralSynthesize(w, o)

PublicInputs(kind, w) ==
    CASE kind = "Collateral"     -> CollateralPublicInputs(w)
      [] kind = "LTV"            -> LTVPublicInputs(w)
      [] kind = "Liquidation"    -> LiquidationPublicInputs(w)
      [] kind = "ComparisonTest" -> <<>>
      [] kind = "RangeCheckTest" -> <<>>
      [] kind = "Poseidon"       -> <<>>
      [] kind = "ArkCollateral"  -> ArkCollateralPublicInputs(w)

\* MockProver::verify / verify_proof: every gate, lookup, copy constraint
\* and instance constraint holds.
Satisfied(kind, c, inst) ==
    CASE kind = "Collateral"     -> CollateralSatisfied(c, inst)
      [] kind = "LTV"            -> LTVSatisfied(c, inst)
      [] kind = "Liquidation"    -> LiquidationSatisfied(c, inst)
      [] kind = "ComparisonTest" -> ComparisonTestSatisfied(c, inst)
      [] kind = "RangeCheckTest" -> RangeCheckTestSatisfied(c, inst)
      [] kind = "Poseidon"       -> PoseidonSatisfied(c, inst)
      [] kind = "ArkCollateral"  -> ArkCollateralSatisfied(c, inst)

\* The range-check lookups alone, for the cells synthesize lays out.
LookupsSatisfied(kind, c) ==
    CASE kind = "Liquidation" -> RangeLookup(c.cmp.cmp.rc.value, RANGE_BITS)
      [] kind = "ComparisonTest" -> RangeLookup(c.cmp.rc.value, TEST_BITS)
      [] kind = "RangeCheckTest" -> RangeLookup(c.rc.value, TEST_BITS)
      [] OTHER -> RangeLookup(c.cmp.rc.value, RANGE_BITS)

(***************************************************************************)
(* State.                                                                  *)
(***************************************************************************)
VARIABLES
    circ,      \* SpecCircuit: the circuit under MockProver (a record)
    pc,        \* Spec: each request's position in handler / ZKProver
    req,       \* Spec: each request's kind and parsed numbers
    result,    \* Spec: what the handler returned to the caller
    via,       \* Spec: how the request's ensure_*_keys call returned
    readers,   \* Spec: requests holding the context's read lock
    writer,    \* Spec: the request holding the write lock, or 0
    waiters,   \* Spec: the RwLock's FIFO queue of <<request, mode>>
    keys,      \* Spec: ProvingContext, per kind [pk, vk] presence
    keygens,   \* Spec: per kind, the number of successful key generations
    params,    \* Spec: ProvingContext.params, the SRS built by ZKProver::new
    call,      \* SpecFunctions: the last call of a pure function
    oracle,    \* SpecOracle: PriceOracle's cache and the clock
    ocall,     \* SpecOracle: each caller's get_eth_price call
    hub        \* SpecHub: WsHub's user channels and their receivers

circuitVars == <<circ>>
proverVars == <<pc, req, result, via, readers, writer, waiters, keys, keygens,
               params>>
serviceVars == <<oracle, ocall, hub>>
vars == <<circ, pc, req, result, via, readers, writer, waiters, keys, keygens,
          params, call, oracle, ocall, hub>>

(***************************************************************************)
(* SpecCircuit: inputs.                                                    *)
(***************************************************************************)
CircuitKinds ==
    {"Collateral", "LTV", "Liquidation", "ComparisonTest", "RangeCheckTest",
     "Poseidon", "ArkCollateral"}

AmountSample == {0, 1, 400, 500, 1000, 65535, 65536, 66000, FieldModulus - 3}
SaltSample == {0, 1, 12345, 99999}
ByteSample == {0, 1, 50, 100, 127, 255, 256, 300, FieldModulus - 1}

Witnesses(kind) ==
    CASE kind = "Collateral" ->
            [collateral : AmountSample, salt : SaltSample,
             threshold : AmountSample]
      [] kind = "LTV" ->
            [debt : {0, 60, 80, 90, 655, 656, FieldModulus - 1},
             collateral : {0, 100, 819, 1000},
             salt_d : {11111}, salt_c : {22222},
             max_ltv : {0, 75, 80, 100}]
      [] kind = "Liquidation" ->
            [collateral : {10, 100, (FieldModulus + 1) \div 2},
             debt : {0, 1, 50, 70, 85, 86, 90},
             salt : {99999},
             price : {1, 2, 8, 10},
             liquidation_threshold : {1, 85}]
      [] kind = "ComparisonTest" ->
            [a : ByteSample, b : ByteSample]
      [] kind = "RangeCheckTest" ->
            [value : ByteSample]
      [] kind = "Poseidon" ->
            [input1 : {0, 1, 1000, FieldModulus - 1},
             input2 : {0, 12345, 99999}]
      [] kind = "ArkCollateral" ->
            [collateral : {0, 100, 400, 500, 1000, 2 ^ ArkRangeBits - 1},
             salt : {11111, 12345, 99999},
             threshold : {0, 500, 40000, 2 ^ ArkRangeBits - 1}]

\* The false statements a deviating prover tries to prove.
ForgeBase(kind) ==
    CASE kind = "Collateral" ->
            {[collateral |-> 400, salt |-> 12345, threshold |-> 500]}
      [] kind = "LTV" ->
            {[debt |-> 90, collateral |-> 100, salt_d |-> 11111,
              salt_c |-> 22222, max_ltv |-> 80]}
      [] kind = "Liquidation" ->
            {[collateral |-> 100, debt |-> 50, salt |-> 99999, price |-> 1,
              liquidation_threshold |-> 85]}
      [] kind = "ComparisonTest" -> {[a |-> 50, b |-> 100]}
      [] kind = "RangeCheckTest" -> {[value |-> 256]}
      [] kind = "Poseidon" -> {}
      [] kind = "ArkCollateral" -> {}

ForgeCells(kind) ==
    CASE kind = "Collateral" ->
            {"collateral", "salt", "threshold", "commitment", "diff"}
      [] kind = "LTV" ->
            {"debt", "collateral", "salt_d", "salt_c", "debt_scaled",
             "collateral_scaled", "debt_commitment", "collateral_commitment",
             "diff"}
      [] kind = "Liquidation" ->
            {"collateral", "debt", "salt", "price", "liquidation_threshold",
             "collateral_value", "debt_scaled", "position_hash",
             "b_plus_one", "diff"}
      [] kind = "ComparisonTest" -> {"a", "b", "diff"}
      [] kind = "RangeCheckTest" -> {"value"}
      [] kind = "Poseidon" -> {}
      [] kind = "ArkCollateral" -> {}

ForgeValues == {0, 1, 100, 4999, 5000, 8999, 9000, 65535, FieldModulus - 1}

Overrides(kind, w) ==
    IF w \in ForgeBase(kind)
    THEN {NoOverride} \cup [cell : ForgeCells(kind), value : ForgeValues]
    ELSE {NoOverride}

\* Values a caller may put in place of one public input: small numbers and
\* commitments of the same value under another salt.
TamperValues(kind, w) ==
    {0, 1, 75, 80, 85, 500}
    \cup (IF kind = "Collateral"
          THEN {compute_commitment(w.collateral, s) : s \in SaltSample}
          ELSE {})

(***************************************************************************)
(* SpecCircuit: actions.                                                   *)
(***************************************************************************)
NoCircuit ==
    [phase |-> "new", kind |-> "none", w |-> <<>>, o |-> NoOverride,
     cells |-> <<>>, instance |-> <<>>, tampered |-> 0, verdict |-> FALSE]

\* new(..) and MockProver::run: the prover synthesizes the circuit for the
\* witness w and the caller supplies the matching public inputs.
NewCircuit ==
    /\ circ.phase = "new"
    /\ \E kind \in CircuitKinds :
         \E w \in Witnesses(kind) :
           \E o \in Overrides(kind, w) :
             circ' = [phase |-> "synthesized", kind |-> kind, w |-> w, o |-> o,
                      cells |-> Synthesize(kind, w, o),
                      instance |-> PublicInputs(kind, w),
                      tampered |-> 0, verdict |-> FALSE]
    /\ UNCHANGED <<call, proverVars, serviceVars>>

\* The caller replaces one public input by a different value.
TamperInstance ==
    /\ circ.phase = "synthesized"
    /\ circ.o = NoOverride
    /\ circ.tampered = 0
    /\ \E i \in 1..Len(circ.instance) :
         \E v \in TamperValues(circ.kind, circ.w) :
           /\ v # circ.instance[i]
           /\ circ' = [circ EXCEPT !.instance[i] = v, !.tampered = i]
    /\ UNCHANGED <<call, proverVars, serviceVars>>

\* MockProver::verify.
Verify ==
    /\ circ.phase = "synthesized"
    /\ circ' = [circ EXCEPT
                  !.phase = "verified",
                  !.verdict = Satisfied(circ.kind, circ.cells, circ.instance)]
    /\ UNCHANGED <<call, proverVars, serviceVars>>

(***************************************************************************)
(* Spec: the HTTP handlers (routes/proof.rs).                              *)
(***************************************************************************)
Requests == 1..NumRequests
ProofKinds == {"Collateral", "LTV", "Liquidation"}

\* Parsed request bodies: the scenarios of the tests, their boundary cases,
\* a request with a zero salt, and one position whose collateral value
\* exceeds the field modulus.
RequestSamples ==
    {[kind |-> "Collateral", collateral |-> 1000, threshold |-> 500,
      salt |-> 12345],
     [kind |-> "Collateral", collateral |-> 500, threshold |-> 500,
      salt |-> 99999],
     [kind |-> "Collateral", collateral |-> 400, threshold |-> 500,
      salt |-> 12345],
     [kind |-> "Collateral", collateral |-> 1000, threshold |-> 500,
      salt |-> 0],
     [kind |-> "Collateral", collateral |-> 70000, threshold |-> 500,
      salt |-> 12345],
     [kind |-> "LTV", collateral |-> 100, debt |-> 80, max_ltv |-> 80,
      collateral_salt |-> 22222, debt_salt |-> 11111],
     [kind |-> "LTV", collateral |-> 100, debt |-> 90, max_ltv |-> 80,
      collateral_salt |-> 22222, debt_salt |-> 11111],
     [kind |-> "Liquidation", collateral |-> 100, debt |-> 90, price |-> 1,
      liquidation_threshold |-> 85, salt |-> 99999],
     [kind |-> "Liquidation", collateral |-> 100, debt |-> 50, price |-> 1,
      liquidation_threshold |-> 85, salt |-> 99999],
     [kind |-> "Liquidation", collateral |-> 100, debt |-> 85, price |-> 1,
      liquidation_threshold |-> 85, salt |-> 99999],
     [kind |-> "Liquidation", collateral |-> (FieldModulus + 1) \div 2,
      debt |-> 1, price |-> 2, liquidation_threshold |-> 1, salt |-> 99999]}

\* validation::validate_salt (circuits crate): Ok exactly for a non-zero
\* salt. No handler and no ZKProver method calls it.
validate_salt(salt) == salt # 0

\* generate_collateral_proof (handler): reject when collateral < threshold.
PreCheckCollateral(r) == ~(r.collateral < r.threshold)

\* generate_ltv_proof (handler): reject when debt * 100 > collateral * max_ltv.
PreCheckLTV(r) == ~(r.debt * 100 > r.collateral * r.max_ltv)

\* generate_liquidation_proof (handler): reject when
\*   collateral * price * liquidation_threshold >= debt * 100 * 100_000_000.
\* For integers x >= y * S exactly when x \div S >= y; the right-hand product
\* is compared in that form. The request numbers of RequestSamples keep both
\* u128 products below 2^128, so they are the exact integers; the field is
\* scaled below that, so a product can pass the modulus here without
\* wrapping the handler's u128.
PreCheckLiquidation(r) ==
    LET collateral_value == r.collateral * r.price * r.liquidation_threshold
    IN  ~((collateral_value \div PRICE_SCALE) >= r.debt * 100)

PreCheck(r) ==
    CASE r.kind = "Collateral"  -> PreCheckCollateral(r)
      [] r.kind = "LTV"         -> PreCheckLTV(r)
      [] r.kind = "Liquidation" -> PreCheckLiquidation(r)

(***************************************************************************)
(* Spec: ZKProver (services/zk_prover.rs).                                 *)
(***************************************************************************)
\* generate_*_proof: Fp::from_u128 / Fp::from of every number, and the
\* circuit instance built from them.
WitnessOf(r) ==
    CASE r.kind = "Collateral" ->
            [collateral |-> FromInt(r.collateral), salt |-> FromInt(r.salt),
             threshold |-> FromInt(r.threshold)]
      [] r.kind = "LTV" ->
            [debt |-> FromInt(r.debt), collateral |-> FromInt(r.collateral),
             salt_d |-> FromInt(r.debt_salt),
             salt_c |-> FromInt(r.collateral_salt),
             max_ltv |-> FromInt(r.max_ltv)]
      [] r.kind = "Liquidation" ->
            [collateral |-> FromInt(r.collateral), debt |-> FromInt(r.debt),
             salt |-> FromInt(r.salt), price |-> FromInt(r.price),
             liquidation_threshold |-> FromInt(r.liquidation_threshold)]

\* halo2's create_proof on the honestly synthesized circuit: it returns
\* Err(ConstraintSystemFailure) exactly when a lookup input is missing from
\* the table; gates and copy constraints hold by construction of synthesize.
CreateProofOk(r) ==
    LookupsSatisfied(r.kind, Synthesize(r.kind, WitnessOf(r), NoOverride))

\* No pure function has been called.
NoCall == [fn |-> "none", args |-> <<>>, ret |-> <<>>]

NoKeys == [pk |-> FALSE, vk |-> FALSE]
NoResult == [code |-> "none", details |-> "none"]
NoRequest == [kind |-> "none"]

\* tokio::sync::RwLock: FIFO, write-preferring. A request at the head of the
\* queue is granted when the lock's holders allow its mode.
\* A lock that admits one holder at a time, readers included.
CanGrantExclusive(mode) == writer = 0 /\ readers = {}

CanGrant(mode) ==
    IF mode = "read" THEN writer = 0 ELSE writer = 0 /\ readers = {}

Release(p) ==
    /\ readers' = readers \ {p}
    /\ writer' = IF writer = p THEN 0 ELSE writer

\* The handler: parse, pre-check, then call into ZKProver.
\* (Requests are numbered in their order of arrival.)
Handler(p) ==
    /\ pc[p] = "idle"
    /\ \A q \in Requests : q < p => pc[q] # "idle"
    /\ \E r \in RequestSamples :
         /\ req' = [req EXCEPT ![p] = r]
         /\ IF PreCheck(r)
            THEN /\ pc' = [pc EXCEPT ![p] = "ensure_read"]
                 /\ UNCHANGED result
            ELSE /\ pc' = [pc EXCEPT ![p] = "done"]
                 /\ result' = [result EXCEPT ![p] =
                        [code |-> "VALIDATION_ERROR",
                         details |-> "pre-check failed"]]
    /\ UNCHANGED <<serviceVars, circ, call, params, via, readers, writer, waiters, keys, keygens>>

\* self.context.read().await / self.context.write().await: join the queue.
LockRequest(p) ==
    /\ pc[p] \in {"ensure_read", "ensure_write", "prove_read"}
    /\ waiters' = Append(waiters,
                         <<p, IF pc[p] = "ensure_write" THEN "write" ELSE "read">>)
    /\ pc' = [pc EXCEPT ![p] =
                CASE pc[p] = "ensure_read"  -> "ensure_read_wait"
                  [] pc[p] = "ensure_write" -> "ensure_write_wait"
                  [] pc[p] = "prove_read"   -> "prove_read_wait"]
    /\ UNCHANGED <<serviceVars, circ, call, params, req, result, via, readers, writer, keys, keygens>>

\* The lock is granted to the head of the queue.
LockGrant(p) ==
    /\ waiters # <<>>
    /\ Head(waiters)[1] = p
    /\ CanGrant(Head(waiters)[2])
    /\ waiters' = Tail(waiters)
    /\ IF Head(waiters)[2] = "read"
       THEN readers' = readers \cup {p} /\ UNCHANGED writer
       ELSE writer' = p /\ UNCHANGED readers
    /\ pc' = [pc EXCEPT ![p] =
                CASE pc[p] = "ensure_read_wait"  -> "ensure_check"
                  [] pc[p] = "ensure_write_wait" -> "ensure_recheck"
                  [] pc[p] = "prove_read_wait"   -> "proving"]
    /\ UNCHANGED <<serviceVars, circ, call, params, req, result, via, keys, keygens>>

\* A fast path that returns Ok without looking at the cache.
EnsureFastUnchecked(p) ==
    /\ pc[p] = "ensure_check"
    /\ Release(p)
    /\ via' = [via EXCEPT ![p] = "fast"]
    /\ pc' = [pc EXCEPT ![p] = "prove_read"]
    /\ UNCHANGED <<serviceVars, circ, call, params, req, result, waiters, keys, keygens>>

\* ensure_*_keys under the read lock: the keys are there, return Ok.
EnsureFast(p) ==
    /\ pc[p] = "ensure_check"
    /\ keys[req[p].kind].pk
    /\ Release(p)
    /\ via' = [via EXCEPT ![p] = "fast"]
    /\ pc' = [pc EXCEPT ![p] = "prove_read"]
    /\ UNCHANGED <<serviceVars, circ, call, params, req, result, waiters, keys, keygens>>

\* A slow path that keeps its read guard while it asks for the write lock.
EnsureDropKeepingRead(p) ==
    /\ pc[p] = "ensure_check"
    /\ ~keys[req[p].kind].pk
    /\ pc' = [pc EXCEPT ![p] = "ensure_write"]
    /\ UNCHANGED <<serviceVars, circ, call, params, req, result, via, readers, writer, waiters, keys, keygens>>

\* ensure_*_keys under the read lock: the keys are absent, drop(read_guard).
EnsureDrop(p) ==
    /\ pc[p] = "ensure_check"
    /\ ~keys[req[p].kind].pk
    /\ Release(p)
    /\ pc' = [pc EXCEPT ![p] = "ensure_write"]
    /\ UNCHANGED <<serviceVars, circ, call, params, req, result, via, waiters, keys, keygens>>

\* A write-lock section that does not look at the keys again.
RecheckNever(p) == FALSE

\* The double-check after acquiring the write lock.
RecheckFinds(p) == keys[req[p].kind].pk

\* ensure_*_keys under the write lock: another request stored the keys.
EnsureRecheckSkip(p) ==
    /\ pc[p] = "ensure_recheck"
    /\ RecheckFinds(p)
    /\ Release(p)
    /\ via' = [via EXCEPT ![p] = "recheck"]
    /\ pc' = [pc EXCEPT ![p] = "prove_read"]
    /\ UNCHANGED <<serviceVars, circ, call, params, req, result, waiters, keys, keygens>>

\* A key generation that stores the verifying key and loses the proving key.
KeygenOkVkOnly(p) ==
    /\ pc[p] = "ensure_recheck"
    /\ ~RecheckFinds(p)
    /\ keys' = [keys EXCEPT ![req[p].kind] = [pk |-> FALSE, vk |-> TRUE]]
    /\ keygens' = [keygens EXCEPT ![req[p].kind] = @ + 1]
    /\ Release(p)
    /\ via' = [via EXCEPT ![p] = "built"]
    /\ pc' = [pc EXCEPT ![p] = "prove_read"]
    /\ UNCHANGED <<serviceVars, circ, call, params, req, result, waiters>>

\* keygen_vk and keygen_pk succeed; both keys are stored.
KeygenOk(p) ==
    /\ pc[p] = "ensure_recheck"
    /\ ~RecheckFinds(p)
    /\ keys' = [keys EXCEPT ![req[p].kind] = [pk |-> TRUE, vk |-> TRUE]]
    /\ keygens' = [keygens EXCEPT ![req[p].kind] = @ + 1]
    /\ Release(p)
    /\ via' = [via EXCEPT ![p] = "built"]
    /\ pc' = [pc EXCEPT ![p] = "prove_read"]
    /\ UNCHANGED <<serviceVars, circ, call, params, req, result, waiters>>

\* keygen_vk or keygen_pk fails: `?` returns the error, nothing is stored,
\* and the handler maps it to ProofGenerationFailed(e.to_string()).
KeygenFail(p) ==
    /\ pc[p] = "ensure_recheck"
    /\ ~RecheckFinds(p)
    /\ Release(p)
    /\ via' = [via EXCEPT ![p] = "failed"]
    /\ result' = [result EXCEPT ![p] =
            [code |-> "PROOF_GENERATION_FAILED",
             details |-> "Failed to generate verification key"]]
    /\ pc' = [pc EXCEPT ![p] = "done"]
    /\ UNCHANGED <<serviceVars, circ, call, params, req, waiters, keys, keygens>>

\* The proof block under the read lock: take the proving key, create_proof,
\* serialize, and the handler's response.
CreateProof(p) ==
    /\ pc[p] = "proving"
    /\ Release(p)
    /\ result' = [result EXCEPT ![p] =
            IF ~keys[req[p].kind].pk
            THEN [code |-> "PROOF_GENERATION_FAILED",
                  details |-> "Proving key not initialized"]
            ELSE IF CreateProofOk(req[p])
            THEN [code |-> "OK", details |-> "ProofResponse"]
            ELSE [code |-> "PROOF_GENERATION_FAILED",
                  details |-> "Failed to create proof"]]
    /\ pc' = [pc EXCEPT ![p] = "done"]
    /\ UNCHANGED <<serviceVars, circ, call, params, req, via, waiters, keys, keygens>>

(***************************************************************************)
(* Proof serialization (ZKProver::serialize_proof_to_groth16).             *)
(***************************************************************************)
HexDigits ==
    <<"0", "1", "2", "3", "4", "5", "6", "7",
      "8", "9", "a", "b", "c", "d", "e", "f">>

\* hex::encode: two lower-case hex digits per byte, high nibble first.
RECURSIVE hex_encode(_)
hex_encode(bytes) ==
    IF bytes = <<>>
    THEN <<>>
    ELSE <<HexDigits[(Head(bytes) \div 16) + 1], HexDigits[(Head(bytes) % 16) + 1]>>
         \o hex_encode(Tail(bytes))

\* format!("0x{}", hex::encode(word))
HexWord(word) == <<"0", "x">> \o hex_encode(word)

\* &[0u8; 32]
ZeroWord == [j \in 1..WORD_BYTES |-> 0]

\* A slice that is cut at the end of the proof and not padded.
ProofSliceUnpadded(proof_bytes, lo, hi) ==
    SubSeq(proof_bytes, lo + 1, IF Len(proof_bytes) >= hi THEN hi ELSE Len(proof_bytes))

\* if len >= hi { &proof_bytes[lo..hi] } else { &[0u8; 32] }
ProofSlice(proof_bytes, lo, hi) ==
    IF Len(proof_bytes) >= hi THEN SubSeq(proof_bytes, lo + 1, hi) ELSE ZeroWord

serialize_proof_to_groth16(proof_bytes) ==
    LET a_x  == ProofSlice(proof_bytes, 0, 32)
        a_y  == ProofSlice(proof_bytes, 32, 64)
        b_x1 == ProofSlice(proof_bytes, 64, 96)
        b_x2 == ProofSlice(proof_bytes, 96, 128)
        b_y1 == ProofSlice(proof_bytes, 128, 160)
        b_y2 == ProofSlice(proof_bytes, 160, 192)
        c_x  == ProofSlice(proof_bytes, 192, 224)
        c_y  == ProofSlice(proof_bytes, 224, 256)
    IN  [a |-> <<HexWord(a_x), HexWord(a_y)>>,
         b |-> << <<HexWord(b_x1), HexWord(b_x2)>>,
                  <<HexWord(b_y1), HexWord(b_y2)>> >>,
         c |-> <<HexWord(c_x), HexWord(c_y)>>]

(***************************************************************************)
(* SpecFunctions: calls of the pure functions.                             *)
(***************************************************************************)
\* u128 values and salts a caller commits to (all below the modulus, as
\* every u128 is below the Pallas modulus).
CommitValues == {0, 1, 500, 1000, 65535, 1000000, FieldModulus - 1}
CommitSalts == {0, 1, 12345, 67890, 99999, FieldModulus - 1}

\* ZKProver::compute_commitment called twice with (value, salt1) and once
\* with (value, salt2), as create_commitment does for a caller who commits
\* to one value under two salts.
CallComputeCommitment ==
    /\ \E v \in CommitValues :
         \E s1 \in CommitSalts :
           \E s2 \in CommitSalts :
             call' = [fn |-> "compute_commitment",
                      args |-> <<v, s1, s2>>,
                      ret |-> <<ZKProverComputeCommitment(v, s1),
                                ZKProverComputeCommitment(v, s1),
                                ZKProverComputeCommitment(v, s2)>>]
    /\ UNCHANGED <<circ, proverVars, serviceVars>>

\* Proof byte strings: empty, around every word boundary, and longer than
\* the eight words; the bytes are non-zero so that padding shows.
ProofLens ==
    {n \in {0, 1, 31, 32, 33, 63, 64, 65, 96, 127, 128, 160, 191, 192, 223,
            224, 255, 256, 257} : n <= MaxProofLen} \cup {MaxProofLen}
ProofSeeds == {1, 7, 100, 254}
ProofBytes(len, seed) == [j \in 1..len |-> 1 + ((seed + j) % 255)]

\* serialize_proof_to_groth16 called on one proof byte string.
CallSerializeProof ==
    /\ \E len \in ProofLens :
         \E seed \in ProofSeeds :
           call' = [fn |-> "serialize_proof_to_groth16",
                    args |-> <<ProofBytes(len, seed)>>,
                    ret |-> serialize_proof_to_groth16(ProofBytes(len, seed))]
    /\ UNCHANGED <<circ, proverVars, serviceVars>>

(***************************************************************************)
(* SpecPreChecks: the four liquidation predicates.                          *)
(***************************************************************************)
\* validation::validate_liquidation: Ok exactly when debt is non-zero and
\* collateral * price * liq_threshold < debt * 10000. (The checked_mul
\* overflow errors need products of 2^64 and are not reached by
\* LiquidationSamples.)
validate_liquidation(collateral, debt, price, liquidation_threshold) ==
    /\ debt # 0
    /\ ~(collateral * price * liquidation_threshold >= debt * VALIDATION_SCALE)

\* The positions of the repository's own liquidation tests, at both price
\* scales they use.
LiquidationSamples ==
    [collateral : {10, 100}, debt : {0, 50, 70, 85, 90}, price : {1, 8, 100},
     liquidation_threshold : {85}]

\* The Halo2 Liquidation circuit on the position: synthesize, then verify
\* against its own public inputs.
LiquidationCircuitAccepts(r) ==
    LET w == [collateral |-> FromInt(r.collateral), debt |-> FromInt(r.debt),
              salt |-> FromInt(99999), price |-> FromInt(r.price),
              liquidation_threshold |-> FromInt(r.liquidation_threshold)]
    IN  Satisfied("Liquidation", Synthesize("Liquidation", w, NoOverride),
                  PublicInputs("Liquidation", w))

\* One position put to the handler's pre-check, validate_liquidation,
\* is_liquidatable and the circuit (one call per behaviour).
CallLiquidationPredicates ==
    /\ call = NoCall
    /\ \E r \in LiquidationSamples :
         call' = [fn |-> "liquidation_predicates",
                  args |-> <<r.collateral, r.debt, r.price,
                             r.liquidation_threshold>>,
                  ret |-> <<PreCheckLiquidation(r),
                            validate_liquidation(r.collateral, r.debt, r.price,
                                                 r.liquidation_threshold),
                            is_liquidatable(r.collateral, r.debt, r.price,
                                            r.liquidation_threshold),
                            LiquidationCircuitAccepts(r)>>]
    /\ UNCHANGED <<circ, proverVars, serviceVars>>

(***************************************************************************)
(* SpecPreChecks: the handlers' pre-checks in u128 arithmetic.             *)
(* A u128 is its 16 bytes, least significant first.                        *)
(***************************************************************************)
U128(x) == LittleEndian(x, U128_BYTES)

\* u64 as u128
U64AsU128(bytes) == bytes \o [i \in 1..(U128_BYTES - U64_BYTES) |-> 0]

U128Max == [i \in 1..U128_BYTES |-> 255]
U64Max == [i \in 1..U64_BYTES |-> 255]
\* 2^127
U128TopBit == [i \in 1..U128_BYTES |-> IF i = U128_BYTES THEN 128 ELSE 0]

\* The sum of a[i] * b[k + 1 - i] over the digit pairs of column k.
RECURSIVE MulColumn(_, _, _, _)
MulColumn(a, b, k, i) ==
    IF i > Len(a) THEN 0
    ELSE (IF k + 1 - i \in 1..Len(b) THEN a[i] * b[k + 1 - i] ELSE 0)
         + MulColumn(a, b, k, i + 1)

RECURSIVE MulFrom(_, _, _, _)
MulFrom(a, b, k, carry) ==
    IF k > Len(a) + Len(b) THEN <<>>
    ELSE LET t == MulColumn(a, b, k, 1) + carry
         IN  <<t % 256>> \o MulFrom(a, b, k + 1, t \div 256)

\* The product of two byte strings as numbers, in full.
FullMul(a, b) == MulFrom(a, b, 1, 0)

\* a < b as numbers, from the most significant byte down.
RECURSIVE LessFrom(_, _, _)
LessFrom(a, b, i) ==
    IF i = 0 THEN FALSE
    ELSE LET x == IF i <= Len(a) THEN a[i] ELSE 0
             y == IF i <= Len(b) THEN b[i] ELSE 0
         IN  IF x # y THEN x < y ELSE LessFrom(a, b, i - 1)

BigLess(a, b) == LessFrom(a, b, IF Len(a) > Len(b) THEN Len(a) ELSE Len(b))

\* u128 `*`: the low 16 bytes, and whether the product left them.
wrapping_mul(a, b) == SubSeq(FullMul(a, b), 1, U128_BYTES)
MulOverflows(a, b) ==
    LET product == FullMul(a, b)
    IN  \E i \in (U128_BYTES + 1)..Len(product) : product[i] # 0

\* generate_ltv_proof's pre-check: the two products, whether either
\* overflowed, and the comparison on the wrapped values.
LTVPreCheckU128(r) ==
    LET max_ltv == U64AsU128(r.max_ltv)
        lhs == wrapping_mul(r.debt, U128(100))
        rhs == wrapping_mul(r.collateral, max_ltv)
    IN  [overflow |-> MulOverflows(r.debt, U128(100))
                      \/ MulOverflows(r.collateral, max_ltv),
         accepted |-> ~BigLess(rhs, lhs),
         exact |-> ~BigLess(FullMul(r.collateral, max_ltv),
                            FullMul(r.debt, U128(100)))]

\* generate_liquidation_proof's pre-check, likewise.
LiquidationPreCheckU128(r) ==
    LET lt == U64AsU128(r.liquidation_threshold)
        cp == wrapping_mul(r.collateral, r.price)
        collateral_value == wrapping_mul(cp, lt)
        d100 == wrapping_mul(r.debt, U128(100))
        debt_value == wrapping_mul(d100, U128(PRICE_SCALE))
    IN  [overflow |-> \/ MulOverflows(r.collateral, r.price)
                      \/ MulOverflows(cp, lt)
                      \/ MulOverflows(r.debt, U128(100))
                      \/ MulOverflows(d100, U128(PRICE_SCALE)),
         accepted |-> BigLess(collateral_value, debt_value),
         exact |-> BigLess(FullMul(FullMul(r.collateral, r.price), lt),
                           FullMul(FullMul(r.debt, U128(100)),
                                   U128(PRICE_SCALE)))]

PreCheckU128Inputs ==
    [kind : {"LTV"},
     debt : {U128(80), U128(90), U128TopBit, U128Max},
     collateral : {U128(100), U128Max},
     max_ltv : {LittleEndian(80, U64_BYTES), U64Max}]
    \cup
    [kind : {"Liquidation"},
     collateral : {U128(100), U128Max},
     debt : {U128(50), U128(90), U128TopBit},
     price : {U128(1), U128TopBit},
     liquidation_threshold : {LittleEndian(85, U64_BYTES), U64Max}]

\* An overflowing `*` panics in a build with overflow checks and wraps in
\* one without.
Builds == {"overflow-checks", "wrapping"}

\* A handler's pre-check on parsed u128 / u64 request numbers (one call per
\* behaviour).
CallPreCheckU128 ==
    /\ call = NoCall
    /\ \E r \in PreCheckU128Inputs :
         \E build \in Builds :
           LET res == IF r.kind = "LTV" THEN LTVPreCheckU128(r)
                      ELSE LiquidationPreCheckU128(r)
           IN  call' = [fn |-> "pre_check_u128",
                        args |-> <<r, build>>,
                        ret |-> [overflow |-> res.overflow,
                                 outcome |->
                                     IF res.overflow /\ build = "overflow-checks"
                                     THEN "panic"
                                     ELSE IF res.accepted THEN "accepted"
                                     ELSE "rejected",
                                 exact |-> IF res.exact THEN "accepted"
                                           ELSE "rejected"]]
    /\ UNCHANGED <<circ, proverVars, serviceVars>>

(***************************************************************************)
(* SpecOracle: PriceOracle (services/price_oracle.rs).                     *)
(***************************************************************************)
Callers == 1..NumCallers

NoCache == [some |-> FALSE]
NoPrice == [price |-> 0, updated_at |-> -1]
IdleCall == [pc |-> "idle", at |-> 0, seen |-> NoCache, fetched |-> FALSE,
             ret |-> NoPrice]

\* How far the clock moves in one advance, in ticks: a tick, one tick short
\* of the TTL, the TTL.
Delays == {1, CACHE_TTL_SECS * TicksPerSec - 1, CACHE_TTL_SECS * TicksPerSec}

\* Time passes.
ClockAdvance ==
    /\ oracle.advances < MaxAdvances
    /\ \E d \in Delays :
         oracle' = [oracle EXCEPT !.now = @ + d, !.advances = @ + 1]
    /\ UNCHANGED <<ocall, hub, circ, call, proverVars>>

\* cached_at.elapsed().as_secs(): whole seconds, rounded down.
elapsed_secs(cached_at) == (oracle.now - cached_at) \div TicksPerSec

\* A cache check that also serves an entry exactly CACHE_TTL_SECS old.
CacheHitInclusive(cache) ==
    cache.some /\ elapsed_secs(cache.cached_at) <= CACHE_TTL_SECS

\* The cache check of get_eth_price.
CacheHit(cache) ==
    cache.some /\ elapsed_secs(cache.cached_at) < CACHE_TTL_SECS

\* get_eth_price up to the cache check: a hit returns the cached data, a
\* miss goes on to fetch_price().await.
GetPriceCheck(c) ==
    /\ ocall[c].pc \in {"idle", "done"}
    /\ oracle.calls < MaxCalls
    /\ oracle' = [oracle EXCEPT !.calls = @ + 1]
    /\ ocall' = [ocall EXCEPT ![c] =
          IF CacheHit(oracle.cached_price)
          THEN [pc |-> "done", at |-> oracle.now, seen |-> oracle.cached_price,
                fetched |-> FALSE, ret |-> oracle.cached_price.data]
          ELSE [pc |-> "fetching", at |-> oracle.now,
                seen |-> oracle.cached_price, fetched |-> FALSE,
                ret |-> NoPrice]]
    /\ UNCHANGED <<hub, circ, call, proverVars>>

\* fetch_price: the mock price, stamped with Utc::now().
GetPriceFetch(c) ==
    /\ ocall[c].pc = "fetching"
    /\ ocall' = [ocall EXCEPT ![c].pc = "storing",
                              ![c].fetched = TRUE,
                              ![c].ret = [price |-> MOCK_PRICE,
                                          updated_at |-> oracle.now]]
    /\ oracle' = [oracle EXCEPT !.fetches = @ + 1]
    /\ UNCHANGED <<hub, circ, call, proverVars>>

\* The cache update under the write lock, and the return.
GetPriceStore(c) ==
    /\ ocall[c].pc = "storing"
    /\ oracle' = [oracle EXCEPT !.cached_price =
                     [some |-> TRUE, data |-> ocall[c].ret,
                      cached_at |-> oracle.now]]
    /\ ocall' = [ocall EXCEPT ![c].pc = "done"]
    /\ UNCHANGED <<hub, circ, call, proverVars>>

OracleInit ==
    /\ oracle = [now |-> 0, advances |-> 0, calls |-> 0,
                 cached_price |-> NoCache, fetches |-> 0]
    /\ ocall = [c \in Callers |-> IdleCall]

(***************************************************************************)
(* SpecHub: WsHub's per-user channels (services/websocket.rs).             *)
(***************************************************************************)
Receivers == 1..NumReceivers
Addresses == {"0x1234", "0xabcd"}

NoChannel == [some |-> FALSE, log |-> <<>>]
NoReceiver == [addr |-> "none", start |-> 0, next |-> 0, got |-> <<>>,
               lagged |-> 0]

\* subscribe_user(address): the channel is created on first use
\* (entry().or_insert_with), the new receiver starts at the channel's tail.
SubscribeUser(r, address) ==
    /\ hub.rx[r].addr = "none"
    /\ LET ch == IF hub.user_channels[address].some
                 THEN hub.user_channels[address]
                 ELSE [some |-> TRUE, log |-> <<>>]
       IN  hub' = [hub EXCEPT
                     !.user_channels[address] = ch,
                     !.rx[r] = [addr |-> address, start |-> Len(ch.log),
                                next |-> Len(ch.log), got |-> <<>>,
                                lagged |-> 0]]
    /\ UNCHANGED <<oracle, ocall, circ, call, proverVars>>

\* The body shared by the three send_* functions: look the address up and
\* send on its channel if there is one.
SendToUser(address, kind) ==
    /\ hub.sends < MaxSends
    /\ hub' = [hub EXCEPT
                 !.sends = @ + 1,
                 !.user_channels[address].log =
                     IF hub.user_channels[address].some
                     THEN Append(@, [kind |-> kind, to |-> address,
                                     n |-> hub.sends + 1])
                     ELSE @]
    /\ UNCHANGED <<oracle, ocall, circ, call, proverVars>>

send_position_update(address) == SendToUser(address, "PositionUpdate")

send_liquidation_warning(address) == SendToUser(address, "LiquidationWarning")

send_tx_status(address) == SendToUser(address, "TransactionStatus")

\* Receiver::recv on a user channel: the next message, or, when the
\* receiver fell more than the capacity behind, Err(Lagged) and a jump to
\* the oldest message the channel still holds.
Recv(r) ==
    /\ hub.rx[r].addr # "none"
    /\ LET log == hub.user_channels[hub.rx[r].addr].log
           next == hub.rx[r].next
       IN  /\ next < Len(log)
           /\ IF Len(log) - next > UserChannelCapacity
              THEN hub' = [hub EXCEPT
                             !.rx[r].next = Len(log) - UserChannelCapacity,
                             !.rx[r].lagged =
                                 @ + (Len(log) - UserChannelCapacity - next)]
              ELSE hub' = [hub EXCEPT
                             !.rx[r].next = @ + 1,
                             !.rx[r].got = Append(@, log[next + 1])]
    /\ UNCHANGED <<oracle, ocall, circ, call, proverVars>>

HubInit ==
    hub = [user_channels |-> [a \in Addresses |-> NoChannel],
           rx |-> [r \in Receivers |-> NoReceiver],
           sends |-> 0]

(***************************************************************************)
(* Specifications.                                                         *)
(***************************************************************************)
ProverInit ==
    /\ pc = [p \in Requests |-> "idle"]
    /\ req = [p \in Requests |-> NoRequest]
    /\ result = [p \in Requests |-> NoResult]
    /\ via = [p \in Requests |-> "none"]
    /\ readers = {}
    /\ writer = 0
    /\ waiters = <<>>
    /\ keys = [k \in ProofKinds |-> NoKeys]
    /\ keygens = [k \in ProofKinds |-> 0]
    /\ params = [k |-> SRS_K]

Init ==
    /\ circ = NoCircuit
    /\ call = NoCall
    /\ ProverInit
    /\ OracleInit
    /\ HubInit

Next ==
    \E p \in Requests :
        \/ Handler(p)
        \/ LockRequest(p)
        \/ LockGrant(p)
        \/ EnsureFast(p)
        \/ EnsureDrop(p)
        \/ EnsureRecheckSkip(p)
        \/ KeygenOk(p)
        \/ KeygenFail(p)
        \/ CreateProof(p)

Spec == Init /\ [][Next]_vars

NextCircuit == NewCircuit \/ TamperInstance \/ Verify

\* The tokio scheduler polls every ready task, the RwLock hands the lock to
\* the head of its queue once it is free, and key generation and proof
\* creation terminate.
Fairness ==
    \A p \in Requests :
        /\ WF_vars(LockRequest(p))
        /\ WF_vars(LockGrant(p))
        /\ WF_vars(EnsureFast(p))
        /\ WF_vars(EnsureDrop(p))
        /\ WF_vars(EnsureRecheckSkip(p))
        /\ WF_vars(KeygenOk(p) \/ KeygenFail(p))
        /\ WF_vars(CreateProof(p))

SpecLive == Spec /\ Fairness

SpecCircuit == Init /\ [][NextCircuit]_vars

NextFunctions == CallComputeCommitment \/ CallSerializeProof

SpecFunctions == Init /\ [][NextFunctions]_vars

NextPreChecks == CallLiquidationPredicates \/ CallPreCheckU128

SpecPreChecks == Init /\ [][NextPreChecks]_vars

NextOracle ==
    \/ ClockAdvance
    \/ \E c \in Callers :
         \/ GetPriceCheck(c)
         \/ GetPriceFetch(c)
         \/ GetPriceStore(c)

SpecOracle == Init /\ [][NextOracle]_vars

NextHub ==
    \/ \E r \in Receivers : \E a \in Addresses : SubscribeUser(r, a)
    \/ \E a \in Addresses :
         \/ send_position_update(a)
         \/ send_liquidation_warning(a)
         \/ send_tx_status(a)
    \/ \E r \in Receivers : Recv(r)

SpecHub == Init /\ [][NextHub]_vars

(***************************************************************************)
(* Properties.                                                             *)
(***************************************************************************)
\* The circuit was synthesized as written, its public inputs are the matching
\* ones, and MockProver::verify has run.
HonestVerified(kind) ==
    /\ circ.phase = "verified"
    /\ circ.kind = kind
    /\ circ.o = NoOverride
    /\ circ.tampered = 0

\* The statement a proof of each kind attests, on the request's integers.
Statement(r) ==
    CASE r.kind = "Collateral"  -> r.collateral >= r.threshold
      [] r.kind = "LTV"         -> r.debt * LTV_PRECISION <= r.collateral * r.max_ltv
      [] r.kind = "Liquidation" ->
            is_liquidatable(r.collateral, r.debt, r.price,
                            r.liquidation_threshold)

Started(p) == req[p] # NoRequest

\* C1: for each circuit type, in every interleaving of concurrent requests on
\* a fresh ZKProver, key generation succeeds at most once; a request that saw
\* the keys absent re-checks under the write lock and skips generation when
\* another request stored them in the meantime.
C1_KeygenAtMostOnce ==
    /\ \A k \in ProofKinds : keygens[k] <= 1
    /\ \A p \in Requests : via[p] = "recheck" => keygens[req[p].kind] = 1

\* C1 case: two requests of one type both saw the keys absent; one built
\* them and the other skipped generation at the re-check.
C1_Witness ==
    \E p, q \in Requests :
        /\ via[p] = "built"
        /\ via[q] = "recheck"
        /\ req[p].kind = req[q].kind

\* C2: a request whose numbers make the statement false is rejected by the
\* pre-check before keys are ensured: it never gets past the handler, so it
\* triggers neither key generation nor proof creation.
C2_FalseStatementRejectedFirst ==
    \A p \in Requests :
        (Started(p) /\ ~Statement(req[p])) =>
            /\ pc[p] = "done"
            /\ result[p].code = "VALIDATION_ERROR"
            /\ via[p] = "none"

\* C3: gte(a, b) with BITS = 8: for a, b in [0, 2^BITS) the constraints are
\* satisfied exactly when a >= b as integers.
C3_GteIffGreaterOrEqual ==
    (/\ HonestVerified("ComparisonTest")
     /\ circ.w.a \in load_table(TEST_BITS)
     /\ circ.w.b \in load_table(TEST_BITS))
    => (circ.verdict <=> circ.w.a >= circ.w.b)

\* C3 case: a < b, the difference wraps to modulus - (b - a), the lookup
\* fails.
C3_Witness ==
    /\ HonestVerified("ComparisonTest")
    /\ circ.w.a = 50
    /\ circ.w.b = 100
    /\ circ.cells.cmp.diff = FieldModulus - 50
    /\ ~circ.verdict

\* The two operands the domain circuit hands to the comparison gadget.
ComparisonOperands(kind, c) ==
    CASE kind = "Collateral"  -> <<c.collateral, c.threshold>>
      [] kind = "LTV"         -> <<c.collateral_scaled, c.debt_scaled>>
      [] kind = "Liquidation" -> <<c.debt_scaled, c.collateral_value>>

\* C4: in every domain circuit each of the two operands handed to the
\* comparison gadget is itself range-checked into [0, 2^RANGE_BITS): a
\* satisfied circuit has both operands in the range.
C4_OperandsRangeChecked ==
    \A kind \in ProofKinds :
        (HonestVerified(kind) /\ circ.verdict) =>
            /\ ComparisonOperands(kind, circ.cells)[1] \in load_table(RANGE_BITS)
            /\ ComparisonOperands(kind, circ.cells)[2] \in load_table(RANGE_BITS)

\* C5: any assignment of the LTV circuit's advice cells that satisfies the
\* gates, the lookup and the instance constraints has
\* debt * 100 <= collateral * max_ltv for the committed debt and collateral
\* and the public max_ltv.
C5_LTVSound ==
    (/\ circ.phase = "verified"
     /\ circ.kind = "LTV"
     /\ circ.tampered = 0
     /\ circ.verdict)
    => circ.cells.debt * LTV_PRECISION <= circ.cells.collateral * circ.instance[1]

\* C6: every entry of the public instance vector is tied to its cell: a
\* witness that satisfies the circuit for its public vector no longer
\* satisfies it when one entry is changed to a different value.
C6_InstanceEntriesBound ==
    (/\ circ.phase = "verified"
     /\ circ.tampered # 0
     /\ Satisfied(circ.kind, circ.cells, PublicInputs(circ.kind, circ.w)))
    => ~circ.verdict

\* C7: Collateral circuit with the matching public inputs: for collateral
\* and threshold in [0, 2^RANGE_BITS) it is satisfied exactly when
\* collateral >= threshold.
C7_CollateralIffAtLeastThreshold ==
    (/\ HonestVerified("Collateral")
     /\ circ.w.collateral \in load_table(RANGE_BITS)
     /\ circ.w.threshold \in load_table(RANGE_BITS))
    => (circ.verdict <=> circ.w.collateral >= circ.w.threshold)

\* C7 case: Scenario A (1000, 12345, 500) verifies with public inputs
\* [500, commitment(1000, 12345)].
C7_Witness ==
    /\ HonestVerified("Collateral")
    /\ circ.w = [collateral |-> 1000, salt |-> 12345, threshold |-> 500]
    /\ circ.instance = <<500, compute_commitment(1000, 12345)>>
    /\ circ.verdict

\* C8: LTV circuit with the matching public inputs: whenever debt * 100 and
\* collateral * max_ltv both lie in [0, 2^RANGE_BITS), it is satisfied
\* exactly when debt * 100 <= collateral * max_ltv.
C8_LTVIffWithinRatio ==
    (/\ HonestVerified("LTV")
     /\ circ.w.debt * LTV_PRECISION \in load_table(RANGE_BITS)
     /\ circ.w.collateral * circ.w.max_ltv \in load_table(RANGE_BITS))
    => (circ.verdict <=>
            circ.w.debt * LTV_PRECISION <= circ.w.collateral * circ.w.max_ltv)

\* C8 case: Scenario B (debt 80, collateral 100, max_ltv 80), exactly at the
\* limit, verifies.
C8_Witness ==
    /\ HonestVerified("LTV")
    /\ circ.w.debt = 80
    /\ circ.w.collateral = 100
    /\ circ.w.max_ltv = 80
    /\ circ.cells.cmp.diff = 0
    /\ circ.verdict

\* C9: Liquidation circuit with the matching public inputs: it is satisfied
\* only when collateral * price * liq_threshold < debt * 100.
C9_LiquidationOnlyWhenUnderwater ==
    (HonestVerified("Liquidation") /\ circ.verdict)
    => is_liquidatable(circ.w.collateral, circ.w.debt, circ.w.price,
                       circ.w.liquidation_threshold)

\* C10: a liquidation proof request for a position that is not liquidatable
\* under the circuit's statement ends in an error and never returns a proof
\* to the caller.
C10_HealthyPositionNeverProved ==
    \A p \in Requests :
        (/\ Started(p)
         /\ req[p].kind = "Liquidation"
         /\ ~Statement(req[p]))
        => result[p].code # "OK"

\* C11: the commitment function returns the same field element on repeated
\* calls, and for every value and every two different salts the two
\* commitments differ.
C11_CommitmentSaltSeparating ==
    call.fn = "compute_commitment" =>
        /\ call.ret[1] = call.ret[2]
        /\ call.args[2] # call.args[3] => call.ret[1] # call.ret[3]

\* C12: in the Collateral circuit, a public commitment computed from the same
\* collateral with a different salt leaves the constraint system unsatisfied,
\* for every collateral and every two distinct salts.
C12_WrongSaltCommitmentRejected ==
    (/\ circ.phase = "verified"
     /\ circ.kind = "Collateral"
     /\ circ.o = NoOverride
     /\ \E s \in SaltSample :
          /\ s # circ.w.salt
          /\ circ.instance =
                <<circ.w.threshold, compute_commitment(circ.w.collateral, s)>>)
    => ~circ.verdict

\* C12 case: collateral 1000 committed under salt 12345, the public
\* commitment replaced by the one under salt 99999: rejected.
C12_Witness ==
    /\ circ.phase = "verified"
    /\ circ.kind = "Collateral"
    /\ circ.w = [collateral |-> 1000, salt |-> 12345, threshold |-> 500]
    /\ circ.tampered = 2
    /\ circ.instance = <<500, compute_commitment(1000, 99999)>>
    /\ ~circ.verdict

\* The commitment gate of the circuit holds exactly when the commitment cell
\* is the standalone function of the witness cells.
GateAgreesWithFunction(kind, c) ==
    CASE kind = "Collateral" ->
            CollateralCommitmentGate(c)
                <=> c.commitment = compute_commitment(c.collateral, c.salt)
      [] kind = "LTV" ->
            LTVCommitmentGate(c)
                <=> (/\ c.debt_commitment = compute_commitment(c.debt, c.salt_d)
                     /\ c.collateral_commitment =
                            compute_commitment(c.collateral, c.salt_c))
      [] kind = "Liquidation" ->
            LiquidationPositionHashGate(c)
                <=> c.position_hash =
                        compute_position_hash(c.collateral, c.debt, c.salt)
      [] OTHER -> TRUE

C14_RangeCheckIffInRange ==
    HonestVerified("RangeCheckTest") =>
        (circ.verdict <=> (0 <= circ.w.value /\ circ.w.value < 2 ^ TEST_BITS))

\* C14 case: 256 is rejected.
C14_Witness ==
    /\ HonestVerified("RangeCheckTest")
    /\ circ.w.value = 256
    /\ circ.cells.rc.value = 256
    /\ ~circ.verdict

\* The byte string a "0x"-prefixed hex word stands for.
HexValue(ch) == CHOOSE d \in 0..15 : HexDigits[d + 1] = ch

RECURSIVE hex_decode(_)
hex_decode(digits) ==
    IF Len(digits) < 2
    THEN <<>>
    ELSE <<16 * HexValue(digits[1]) + HexValue(digits[2])>>
         \o hex_decode(SubSeq(digits, 3, Len(digits)))

\* The eight words of a ProofData in the order a[2], b[2][2], c[2].
ProofWords(pd) ==
    <<pd.a[1], pd.a[2], pd.b[1][1], pd.b[1][2], pd.b[2][1], pd.b[2][2],
      pd.c[1], pd.c[2]>>

\* C15: for a proof byte string of any length, serialize_proof_to_groth16
\* returns eight 32-byte hex words a[2], b[2][2], c[2]; word i is proof bytes
\* [32i, 32i+32) when the proof has at least 32(i+1) bytes and 32 zero bytes
\* otherwise.
C15_SerializedLayoutFixed ==
    call.fn = "serialize_proof_to_groth16" =>
        LET proof == call.args[1]
            pd == call.ret
        IN  /\ Len(pd.a) = 2 /\ Len(pd.c) = 2
            /\ Len(pd.b) = 2 /\ Len(pd.b[1]) = 2 /\ Len(pd.b[2]) = 2
            /\ \A i \in 0..7 :
                 LET word == ProofWords(pd)[i + 1]
                 IN  /\ Len(word) = 2 + 2 * WORD_BYTES
                     /\ SubSeq(word, 1, 2) = <<"0", "x">>
                     /\ hex_decode(SubSeq(word, 3, Len(word))) =
                          IF Len(proof) >= WORD_BYTES * (i + 1)
                          THEN [j \in 1..WORD_BYTES |-> proof[WORD_BYTES * i + j]]
                          ELSE [j \in 1..WORD_BYTES |-> 0]

\* C15 case: a 33-byte proof: word 0 is its first 32 bytes, every other word
\* is zero.
C15_Witness ==
    /\ call.fn = "serialize_proof_to_groth16"
    /\ Len(call.args[1]) = 33
    /\ hex_decode(SubSeq(call.ret.a[1], 3, 66)) = SubSeq(call.args[1], 1, 32)
    /\ hex_decode(SubSeq(call.ret.a[2], 3, 66)) = [j \in 1..32 |-> 0]

\* The salts a proof request carries.
RequestSalts(r) ==
    CASE r.kind = "LTV" -> {r.collateral_salt, r.debt_salt}
      [] OTHER          -> {r.salt}

\* C16: a proof request whose salt is zero is rejected as an input-validation
\* error, immediately and without any contact with the proving context.
C16_ZeroSaltRejected ==
    \A p \in Requests :
        (Started(p) /\ \E s \in RequestSalts(req[p]) : ~validate_salt(s)) =>
            /\ pc[p] = "done"
            /\ result[p].code = "VALIDATION_ERROR"
            /\ via[p] = "none"

\* C17: when key generation or proof creation fails inside the prover, the
\* error response carries only the fixed generic code and message, no text
\* of the internal error.
C17_InternalFailureGeneric ==
    \A p \in Requests :
        result[p].code = "PROOF_GENERATION_FAILED" => result[p].details = "none"

\* No step replaces or removes a stored key pair or touches the SRS.
KeysKept ==
    /\ params' = params
    /\ \A k \in ProofKinds : keys[k].pk => keys'[k] = keys[k]

\* C18: key material is write-once: the SRS parameters never change, a
\* stored (proving key, verifying key) pair is never replaced or removed, and
\* in every reachable state a type's proving key is present exactly when its
\* verifying key is.
C18_KeyMaterialWriteOnce ==
    /\ [](\A k \in ProofKinds : keys[k].pk <=> keys[k].vk)
    /\ [][KeysKept]_vars

\* C18 case: one request built a type's keys and a later request of the same
\* type found them on the fast path and finished.
C18_Witness ==
    \E p, q \in Requests :
        /\ via[p] = "built"
        /\ via[q] = "fast"
        /\ req[p].kind = req[q].kind
        /\ pc[q] = "done"
        /\ keys[req[p].kind] = [pk |-> TRUE, vk |-> TRUE]

\* C19: a key generation failure is not retried: the failing request returns
\* the error, nothing is stored, and key generation for that type is not run
\* again by any request.
C19_KeygenFailureNotRetried ==
    \A p \in Requests :
        via[p] = "failed" =>
            /\ result[p].code = "PROOF_GENERATION_FAILED"
            /\ \A q \in Requests \ {p} :
                 (Started(q) /\ req[q].kind = req[p].kind)
                     => via[q] \notin {"built", "failed"}

\* C20: gt(a, b) for a, b in [0, 2^BITS): the constraints are satisfied by
\* the honest assignment when a > b, and by no assignment of the gadget's
\* cells when a <= b.
C20_GtStrict ==
    (/\ circ.phase = "verified"
     /\ circ.kind = "Liquidation"
     /\ circ.tampered = 0
     /\ circ.cells.debt_scaled \in load_table(RANGE_BITS)
     /\ circ.cells.collateral_value \in load_table(RANGE_BITS))
    => /\ (circ.o = NoOverride
           /\ circ.cells.debt_scaled > circ.cells.collateral_value)
          => GtSatisfied(circ.cells.cmp, circ.cells.debt_scaled, RANGE_BITS)
       /\ GtSatisfied(circ.cells.cmp, circ.cells.debt_scaled, RANGE_BITS)
          => circ.cells.debt_scaled > circ.cells.collateral_value

\* C21: for all inputs (x, y) the state trace PoseidonChip::hash assigns
\* satisfies the chip's full-round and partial-round gates on every round
\* row, and the output cell equals poseidon_hash(x, y).
C21_PoseidonChipAgrees ==
    (circ.phase = "verified" /\ circ.kind = "Poseidon") =>
        /\ circ.verdict
        /\ circ.cells.hash.output = poseidon_hash(circ.w.input1, circ.w.input2)

\* C21 case: the chip's trace for (1000, 12345) was checked against the gates.
C21_Witness ==
    /\ circ.phase = "verified"
    /\ circ.kind = "Poseidon"
    /\ circ.w = [input1 |-> 1000, input2 |-> 12345]
    /\ circ.cells.hash.output = poseidon_hash(1000, 12345)
    /\ ~PoseidonRowGate(circ.cells.hash.rows, 0)
    /\ PoseidonRowGate(circ.cells.hash.rows, TotalRounds - 1)

\* C22: the arkworks Collateral circuit with a matching commitment, for
\* collateral and threshold inside the range-check width: the constraint
\* system is satisfied when collateral >= threshold (equality and threshold
\* 0 included) and is not satisfied when collateral < threshold.
C22_ArkCollateralIffAtLeastThreshold ==
    (/\ HonestVerified("ArkCollateral")
     /\ circ.w.collateral < 2 ^ ArkRangeBits
     /\ circ.w.threshold < 2 ^ ArkRangeBits)
    => (circ.verdict <=> circ.w.collateral >= circ.w.threshold)

\* C22 case: test_insufficient_collateral's circuit (400, 12345, 500) was
\* checked and its shifted difference fits the range-check width.
C22_Witness ==
    /\ HonestVerified("ArkCollateral")
    /\ circ.w = [collateral |-> 400, salt |-> 12345, threshold |-> 500]
    /\ circ.cells.diff_shifted = 2 ^ (ArkRangeBits - 1) - 100
    /\ circ.verdict

\* C23: once keys exist, proof requests do not serialize each other: a
\* request inside proof creation holds the context only for reading, so the
\* read request at the head of the lock's queue can be granted while it
\* runs, and two requests can be inside proof creation together.
C23_ProvingDoesNotBlockReaders ==
    \A p \in Requests :
        pc[p] = "proving" =>
            /\ p \in readers
            /\ writer = 0
            /\ (waiters # <<>> /\ Head(waiters)[2] = "read") => CanGrant("read")

\* C23 case: two requests of the same type are inside create_proof at the
\* same time, both holding the read lock, with that type's keys cached.
C23_Witness ==
    \E p, q \in Requests :
        /\ p # q
        /\ pc[p] = "proving" /\ pc[q] = "proving"
        /\ {p, q} \subseteq readers
        /\ req[p].kind = req[q].kind
        /\ keys[req[p].kind].pk

\* What a finished get_eth_price call must have done, given the cache it
\* saw when it was made.
OracleCallCorrect(c) ==
    LET seen == ocall[c].seen
        inside == /\ seen.some
                  /\ ocall[c].at - seen.cached_at < CACHE_TTL_SECS * TicksPerSec
    IN  IF inside
        THEN ~ocall[c].fetched /\ ocall[c].ret = seen.data
        ELSE /\ ocall[c].fetched
             /\ ocall[c].ret.price = MOCK_PRICE
             /\ ocall[c].ret.updated_at >= ocall[c].at

\* A call served from the cache fetches nothing and leaves the cache alone;
\* a call that fetched replaces the cached entry by what it fetched.
OracleCallStep(c) ==
    /\ (/\ ocall[c].pc \in {"idle", "done"}
        /\ ocall'[c].pc = "done"
        /\ ocall'[c] # ocall[c])
           => /\ oracle'.cached_price = oracle.cached_price
              /\ oracle'.fetches = oracle.fetches
    /\ (ocall[c].pc = "storing" /\ ocall'[c].pc = "done")
           => /\ oracle'.cached_price.some
              /\ oracle'.cached_price.data = ocall[c].ret
              /\ oracle'.cached_price.cached_at = oracle.now

\* C24: get_eth_price serves from the cache inside the TTL: a call made less
\* than 60 seconds after the cached entry was stored returns the cached
\* price and updated_at and performs no fetch; a call on an empty cache or
\* at 60 seconds or later fetches a new price and replaces the cached entry.
C24_CacheServedInsideTTL ==
    /\ [](\A c \in Callers : ocall[c].pc = "done" => OracleCallCorrect(c))
    /\ [][\A c \in Callers : OracleCallStep(c)]_vars

\* C24 case: a call made one tick short of 60 seconds after the entry was
\* stored returned the cached data, and the clock had moved since.
C24_Witness ==
    \E c \in Callers :
        /\ ocall[c].pc = "done"
        /\ ~ocall[c].fetched
        /\ ocall[c].seen.some
        /\ ocall[c].at - ocall[c].seen.cached_at = CACHE_TTL_SECS * TicksPerSec - 1
        /\ ocall[c].ret.updated_at < ocall[c].at
        /\ oracle.fetches > 0

\* C25: after subscribe_user(addr), every send_* addressed to addr is
\* received by every subscriber of addr and by no subscriber of another
\* address; a send to an address never subscribed is dropped and creates no
\* channel.
C25_PerUserDelivery ==
    /\ \A r \in Receivers :
         hub.rx[r].addr # "none" =>
            LET log == hub.user_channels[hub.rx[r].addr].log
                got == hub.rx[r].got
            IN  /\ \A i \in 1..Len(got) : got[i].to = hub.rx[r].addr
                /\ hub.rx[r].next = Len(log)
                       => got = SubSeq(log, hub.rx[r].start + 1, Len(log))
    /\ \A a \in Addresses :
         hub.user_channels[a].some => \E r \in Receivers : hub.rx[r].addr = a

\* C25 case: a subscriber read its channel dry after falling more than the
\* capacity behind, and a message sent to its address is missing.
C25_Witness ==
    \E r \in Receivers :
        /\ hub.rx[r].addr # "none"
        /\ hub.rx[r].lagged > 0
        /\ hub.rx[r].next = Len(hub.user_channels[hub.rx[r].addr].log)
        /\ Len(hub.rx[r].got) < Len(hub.user_channels[hub.rx[r].addr].log)
                                   - hub.rx[r].start

\* C26: every collateral proof request the handler's pre-check accepts
\* (collateral >= threshold) yields a circuit instance whose constraints are
\* satisfied: a passing pre-check is never followed by an unsatisfiable
\* circuit or a failed proof creation.
C26_AcceptedCollateralProvable ==
    \A p \in Requests :
        (Started(p) /\ req[p].kind = "Collateral" /\ PreCheck(req[p])) =>
            /\ Satisfied("Collateral",
                         Synthesize("Collateral", WitnessOf(req[p]), NoOverride),
                         PublicInputs("Collateral", WitnessOf(req[p])))
            /\ (pc[p] = "done" /\ via[p] # "failed") => result[p].code = "OK"

\* C26 case: the request (70000, 500) passed the pre-check, its keys were
\* there, and create_proof failed on the out-of-table difference 69500.
C26_Witness ==
    \E p \in Requests :
        /\ req[p].kind = "Collateral"
        /\ req[p].collateral = 70000 /\ req[p].threshold = 500
        /\ PreCheck(req[p])
        /\ pc[p] = "done"
        /\ via[p] # "failed"
        /\ result[p].code = "PROOF_GENERATION_FAILED"

\* C27: the liquidation predicates agree on every input: the handler's
\* pre-check, validate_liquidation, is_liquidatable and the Halo2
\* Liquidation circuit accept exactly the same positions.
C27_LiquidationPredicatesAgree ==
    call.fn = "liquidation_predicates" =>
        /\ call.ret[1] = call.ret[2]
        /\ call.ret[2] = call.ret[3]
        /\ call.ret[3] = call.ret[4]

\* C27 case: the healthy position (100, 50, 1, 85) was put to all four; the
\* handler and validate_liquidation accept it, is_liquidatable and the
\* circuit do not.
C27_Witness ==
    /\ call.fn = "liquidation_predicates"
    /\ call.args = <<100, 50, 1, 85>>
    /\ call.ret = <<TRUE, TRUE, FALSE, FALSE>>

\* C28: the handlers' pre-checks are evaluated without integer overflow:
\* for all u128 collateral, debt and price and all u64 max_ltv and
\* liquidation_threshold the products stay below 2^128, so the pre-check's
\* result equals the mathematical inequality.
C28_PreCheckNeverOverflows ==
    call.fn = "pre_check_u128" =>
        /\ ~call.ret.overflow
        /\ call.ret.outcome = call.ret.exact

\* C28 case: the LTV pre-check on debt = 2^127, collateral = 100,
\* max_ltv = 80 in a wrapping build: debt * 100 wraps to 0 and the request
\* is accepted though the inequality is false.
C28_Witness ==
    /\ call.fn = "pre_check_u128"
    /\ call.args = <<[kind |-> "LTV", debt |-> U128TopBit,
                      collateral |-> U128(100),
                      max_ltv |-> LittleEndian(80, U64_BYTES)], "wrapping">>
    /\ call.ret = [overflow |-> TRUE, outcome |-> "accepted",
                   exact |-> "rejected"]

\* C29: in every interleaving, a request that reaches proof creation after
\* its ensure_*_keys call returned Ok finds the proving key of its circuit
\* type in the cache; the error "Proving key not initialized" is never
\* returned.
C29_ProvingKeyPresentAtProof ==
    \A p \in Requests :
        /\ pc[p] \in {"prove_read", "prove_read_wait", "proving"}
               => keys[req[p].kind].pk
        /\ result[p].details # "Proving key not initialized"

\* C29 case: a request whose keys were stored by another request while it
\* waited for the write lock is inside proof creation, and a request has
\* already been answered with a proof.
C29_Witness ==
    \E p, q \in Requests :
        /\ pc[p] = "proving"
        /\ via[p] = "recheck"
        /\ via[q] = "built"
        /\ keys[req[p].kind].pk

\* C30: the key cache's locking never deadlocks: under fair scheduling and
\* terminating key generation and proof creation, every one of the
\* concurrent proof requests eventually returns.
C30_EveryRequestReturns ==
    \A p \in Requests : Started(p) ~> (pc[p] = "done")

\* C30 case: every request has returned, one of them after generating the
\* keys and another after waiting for the write lock behind it.
C30_Witness ==
    /\ \A p \in Requests : pc[p] = "done"
    /\ \E p, q \in Requests : via[p] = "built" /\ via[q] = "recheck"

==========================================================================
